---- MODULE Spec2Model ----
(***************************************************************************)
(* The XDG notification session layer of notify-rust: the handle facade    *)
(* (src/xdg/mod.rs), the zbus adapter (src/xdg/zbus_rs.rs) and the dbus    *)
(* adapter (src/xdg/dbus_rs.rs, whose source is not available and which is *)
(* modelled from the specification).                                       *)
(***************************************************************************)
EXTENDS Integers, Sequences, FiniteSets, TLC

\* ------------------------------------------------------------------ bounds
MaxHandles == 2        \* handle slots
Shown      == 1        \* handles that Spec shows in one behaviour
MaxId      == 1        \* notification identifiers range over 0..MaxId
MaxUpdates == 2        \* updates that SpecOrder issues on one handle

H       == 1..MaxHandles
W       == 0..MaxHandles       \* waits: 0 is a call of the free handle_action
Ids     == 0..MaxId
OptIds  == {<<>>} \cup {<<i>> : i \in Ids \ {0}}    \* Option<u32>: None, Some(i)
Keys    == {"default"}                               \* action keys of the server
EnvVals == {"unset", "unicode", "notunicode"}        \* the ZBUS variable
Faults  == {"none", "connect", "errreply", "undecodable"}
\* What the bus does to a call: a fault, or a reply that decodes to the identifier r
Replies == [fault : {"none"}, r : Ids] \cup [fault : Faults \ {"none"}, r : {0}]

VARIABLES
    env,        \* state of the process environment variable ZBUS
    handles,    \* handle slot -> the NotificationHandle living there
    nextConn,   \* the next fresh bus connection
    waits,      \* wait slot -> the blocking wait (wait_for_action, on_close, handle_action)
    seen,       \* wait slot -> action name of the first signal that named the wait's id
                \* while it blocked
    shownOn,    \* handle slot -> the adapter whose connect_and_send_notification made it
    assigned,   \* handle slot -> the identifier the server last returned for the handle
    ended,      \* handle slot -> how many of close, wait_for_action, on_close it has had
    caller,     \* the Notification value the caller builds and passes to show
    snap,       \* handle slot -> the summary the notification had when it was shown,
                \* or the one written through the handle since
    conns,      \* handle slot -> the connection that is open on the handle's behalf
                \* (0: none)
    inflight,   \* handle slot -> the update in progress and its Notify calls on the bus
    last        \* the last step: what it sent on the bus and what the caller got

vars == <<env, handles, nextConn, waits, seen, shownOn, assigned, ended, caller,
         snap, conns, inflight, last>>

\* What only the finer-grained specifications change
aux == <<caller, inflight>>

\* ------------------------------------------------------------------ values
Ok(v)    == [kind |-> "Ok",    err |-> "none", val |-> v]
Err(e)   == [kind |-> "Err",   err |-> e,      val |-> 0]
Panic(e) == [kind |-> "Panic", err |-> e,      val |-> 0]
Unit     == [kind |-> "Unit",  err |-> "none", val |-> 0]

\* A bus call: method, its identifier argument, the connection it goes out on and,
\* for Notify, the whole argument tuple.
NoCall        == [method |-> "none", id |-> 0, conn |-> 0, args |-> <<>>]
Call(m, i, c) == [method |-> m, id |-> i, conn |-> c, args |-> <<>>]

\* Notification: the fields the adapters read. Blank is the notification
\* {appname: "t", summary: "hi", body: "", actions: [], hints: {}, timeout: -1}.
Blank == [id |-> <<>>, appname |-> "t", icon |-> "", summary |-> "hi", body |-> "",
          actions |-> <<>>, hints |-> {}, timeout |-> [kind |-> "Default", ms |-> 0]]

\* The notifications a caller builds in SpecWire
Notifications ==
    [id      : OptIds,
     appname : {"t", "app"},
     icon    : {""},
     summary : {"hi", "bye"},
     body    : {""},
     actions : {<<>>, <<"default", "Open">>, <<"default", "Open", "no", "Dismiss">>},
     hints   : SUBSET {[key |-> "urgency", value |-> 2], [key |-> "transient", value |-> 1]},
     timeout : {[kind |-> "Default", ms |-> 0], [kind |-> "Never", ms |-> 0],
                [kind |-> "Milliseconds", ms |-> 5000]}]

\* hints::hints_to_map: the hints as a map from hint name to hint value
hints_to_map(hints) ==
    [k \in {x.key : x \in hints} |-> (CHOOSE x \in hints : x.key = k).value]

\* Timeout::into_i32: Default is -1, Never is 0, Milliseconds(ms) is ms
into_i32(timeout) ==
    IF timeout.kind = "Default" THEN -1
    ELSE IF timeout.kind = "Never" THEN 0
    ELSE timeout.ms

\* The positional arguments of Notify
NotifyArgs(appname, i, icon, summary, body, actions, hints, timeout) ==
    <<appname, i, icon, summary, body, actions, hints, timeout>>

NoHandle == [st |-> "none", variant |-> "-", id |-> 0, conn |-> 0,
             notification |-> Blank]
Consumed == [NoHandle EXCEPT !.st = "consumed"]

\* A wait: id is the identifier the adapter filters by, cb the action names its callback
\* has been invoked with, want the identifier the caller asked to wait for.
NoWait == [st |-> "idle", mode |-> "none", id |-> 0, cb |-> <<>>, want |-> 0]

NoSig == [kind |-> "none", id |-> 0, key |-> "none"]

\* An update in progress: pc is where the caller of update is (idle: not in update,
\* blocked: inside call_method), out the Notify calls not yet answered, issued and
\* answered the Notify calls update has sent and got the reply of.
NoUpdate == [pc |-> "idle", out |-> 0, issued |-> 0, answered |-> 0]

\* A step: op on handle or wait h, run by adapter backend, under bus behaviour
\* (fault, r); call is what it put on the bus and res what the caller got. pre is id()
\* before the step (for a wait: the identifier waited for), held the identifier the
\* server last returned for the handle, nid the notification's own id field. For a step
\* of a wait: sig is the signal read, cb the callback's invocations, closure those of
\* the on_close closure, first the action name of the first signal that named pre.
\* For an update: streak counts (up to 2) the updates made in a row on the handle, with
\* nothing in between, to which the server replied the replace id it was given, and
\* id0 is id() before the first of them. alt is the call the legacy adapter makes
\* where call is the modern adapter's.
NoOp == [op |-> "init", h |-> 0, backend |-> "-", fault |-> "none", r |-> 0,
         call |-> NoCall, pre |-> 0, held |-> 0, nid |-> <<>>, res |-> Unit,
         sig |-> NoSig, cb |-> <<>>, closure |-> 0, mode |-> "none", first |-> <<>>,
         streak |-> 0, id0 |-> 0, alt |-> NoCall]

\* Option::unwrap_or
unwrap_or(opt, d) == IF opt = <<>> THEN d ELSE opt[1]

\* std::env::var("ZBUS").is_ok(): Err(NotPresent) when the variable is not set,
\* Err(NotUnicode) when it is set to a value that is not valid Unicode.
env_var_is_ok(e) == e = "unicode"

\* ------------------------------------------------------------ zbus adapter
\* ZbusNotificationHandle::new
ZbusNotificationHandle_new(id, connection, notification) ==
    [st |-> "live", variant |-> "Zbus", id |-> id, conn |-> connection,
     notification |-> notification]

\* Slip: the call is made without the actions and the hints.
send_notificaion_without_actions(notification, id, connection, fault, r) ==
    [call |-> [Call("Notify", id, connection) EXCEPT !.args =
                 NotifyArgs(notification.appname, id, notification.icon,
                            notification.summary, notification.body,
                            <<>>, hints_to_map({}),
                            into_i32(notification.timeout))],
     res  |-> IF fault = "errreply" THEN Err("BusError")
              ELSE IF fault = "undecodable" THEN Panic("unwrap")
              ELSE Ok(r)]

\* The Notify call and the decoding of its reply: `?` on the call, unwrap on the body.
send_notificaion_via_connection(notification, id, connection, fault, r) ==
    [call |-> [Call("Notify", id, connection) EXCEPT !.args =
                 NotifyArgs(notification.appname, id, notification.icon,
                            notification.summary, notification.body,
                            notification.actions, hints_to_map(notification.hints),
                            into_i32(notification.timeout))],
     res  |-> IF fault = "errreply" THEN Err("BusError")
              ELSE IF fault = "undecodable" THEN Panic("unwrap")
              ELSE Ok(r)]

\* Slip: the first Notify always asks for a fresh identifier.
zbus_connect_and_send_fresh(notification, c, fault, r) ==
    IF fault = "connect"
    THEN [backend |-> "Zbus", call |-> NoCall, res |-> Err("BusError"), handle |-> NoHandle]
    ELSE LET sent == send_notificaion_via_connection(notification, 0, c, fault, r)
         IN  [backend |-> "Zbus", call |-> sent.call, res |-> sent.res,
              handle |-> IF sent.res.kind = "Ok"
                         THEN ZbusNotificationHandle_new(sent.res.val, c, notification)
                         ELSE NoHandle]

\* Slip: the handle keeps a fresh notification, not the clone of the one sent.
zbus_connect_and_send_unkept(notification, c, fault, r) ==
    IF fault = "connect"
    THEN [backend |-> "Zbus", call |-> NoCall, res |-> Err("BusError"), handle |-> NoHandle]
    ELSE LET inner_id == unwrap_or(notification.id, 0)
             sent     == send_notificaion_via_connection(notification, inner_id, c, fault, r)
         IN  [backend |-> "Zbus", call |-> sent.call, res |-> sent.res,
              handle |-> IF sent.res.kind = "Ok"
                         THEN ZbusNotificationHandle_new(sent.res.val, c, Blank)
                         ELSE NoHandle]

\* Slip: the handle is built before the reply is looked at.
zbus_connect_and_send_unchecked(notification, c, fault, r) ==
    IF fault = "connect"
    THEN [backend |-> "Zbus", call |-> NoCall, res |-> Err("BusError"), handle |-> NoHandle]
    ELSE LET inner_id == unwrap_or(notification.id, 0)
             sent     == send_notificaion_via_connection(notification, inner_id, c, fault, r)
         IN  [backend |-> "Zbus", call |-> sent.call, res |-> sent.res,
              handle |-> ZbusNotificationHandle_new(sent.res.val, c, notification)]

\* zbus_rs::connect_and_send_notification
zbus_connect_and_send_notification(notification, c, fault, r) ==
    IF fault = "connect"
    THEN [backend |-> "Zbus", call |-> NoCall, res |-> Err("BusError"), handle |-> NoHandle]
    ELSE LET inner_id == unwrap_or(notification.id, 0)
             sent     == send_notificaion_via_connection(notification, inner_id, c, fault, r)
         IN  [backend |-> "Zbus", call |-> sent.call, res |-> sent.res,
              handle |-> IF sent.res.kind = "Ok"
                         THEN ZbusNotificationHandle_new(sent.res.val, c, notification)
                         ELSE NoHandle]

\* Slip: update replaces the snapshot's own id field, as the first send does.
zbus_update_resends_snapshot_id(self, fault, r) ==
    LET sent == send_notificaion_via_connection(self.notification,
                    unwrap_or(self.notification.id, 0), self.conn, fault, r)
    IN  [backend |-> "Zbus", call |-> sent.call,
         res    |-> IF sent.res.kind = "Ok" THEN Unit ELSE Panic("unwrap"),
         handle |-> IF sent.res.kind = "Ok" THEN [self EXCEPT !.id = sent.res.val] ELSE self]

\* Slip: self.id = send(..).unwrap_or_default()
zbus_update_or_default(self, fault, r) ==
    LET sent == send_notificaion_via_connection(self.notification, self.id, self.conn, fault, r)
    IN  [backend |-> "Zbus", call |-> sent.call,
         res    |-> IF sent.res.kind = "Panic" THEN Panic("unwrap") ELSE Unit,
         handle |-> [self EXCEPT !.id = sent.res.val]]

\* Slip: the identifier is taken from the snapshot's id field, not from the reply.
zbus_update_id_from_snapshot(self, fault, r) ==
    LET sent == send_notificaion_via_connection(self.notification, self.id, self.conn, fault, r)
    IN  [backend |-> "Zbus", call |-> sent.call,
         res    |-> IF sent.res.kind = "Ok" THEN Unit ELSE Panic("unwrap"),
         handle |-> IF sent.res.kind = "Ok"
                    THEN [self EXCEPT !.id = unwrap_or(self.notification.id, 0)]
                    ELSE self]

\* Slip: update sends on a connection of its own, as the first send does.
zbus_update_reconnects(self, fault, r) ==
    LET sent == send_notificaion_via_connection(self.notification, self.id, self.conn + 1,
                                                fault, r)
    IN  [backend |-> "Zbus", call |-> sent.call,
         res    |-> IF sent.res.kind = "Ok" THEN Unit ELSE Panic("unwrap"),
         handle |-> IF sent.res.kind = "Ok" THEN [self EXCEPT !.id = sent.res.val] ELSE self]

\* ZbusNotificationHandle::update: self.id = send(..).unwrap()
zbus_update(self, fault, r) ==
    LET sent == send_notificaion_via_connection(self.notification, self.id, self.conn, fault, r)
    IN  [backend |-> "Zbus", call |-> sent.call,
         res    |-> IF sent.res.kind = "Ok" THEN Unit ELSE Panic("unwrap"),
         handle |-> IF sent.res.kind = "Ok" THEN [self EXCEPT !.id = sent.res.val] ELSE self]

\* ZbusNotificationHandle::close: todo!()
zbus_close(self) ==
    [backend |-> "Zbus", call |-> NoCall, res |-> Panic("todo"), handle |-> Consumed]

\* ZbusNotificationHandle::wait_for_action: todo!()
zbus_wait_for_action(self, mode) ==
    [backend |-> "Zbus", call |-> NoCall, res |-> Panic("todo"), handle |-> Consumed,
     wait |-> NoWait]

\* Slip: the query goes out on the connection opened last, not on one of its own.
zbus_get_server_information_shared(c, fault) ==
    [backend |-> "Zbus",
     call |-> IF fault = "connect" THEN NoCall ELSE Call("GetServerInformation", 0, c - 1),
     res  |-> IF fault \in {"connect", "errreply"} THEN Err("BusError")
              ELSE IF fault = "undecodable" THEN Panic("unwrap")
              ELSE Ok(0)]

\* zbus_rs::get_server_information
zbus_get_server_information(c, fault) ==
    [backend |-> "Zbus",
     call |-> IF fault = "connect" THEN NoCall ELSE Call("GetServerInformation", 0, c),
     res  |-> IF fault \in {"connect", "errreply"} THEN Err("BusError")
              ELSE IF fault = "undecodable" THEN Panic("unwrap")
              ELSE Ok(0)]

\* ------------------------------------------------------------ dbus adapter
\* DbusNotificationHandle::new
DbusNotificationHandle_new(id, connection, notification) ==
    [st |-> "live", variant |-> "Dbus", id |-> id, conn |-> connection,
     notification |-> notification]

\* The legacy Notify call: an error reply is a BusError, an undecodable reply a DecodeError.
dbus_send_notificaion_via_connection(notification, id, connection, fault, r) ==
    [call |-> [Call("Notify", id, connection) EXCEPT !.args =
                 NotifyArgs(notification.appname, id, notification.icon,
                            notification.summary, notification.body,
                            notification.actions, hints_to_map(notification.hints),
                            into_i32(notification.timeout))],
     res  |-> IF fault = "errreply" THEN Err("BusError")
              ELSE IF fault = "undecodable" THEN Err("DecodeError")
              ELSE Ok(r)]

dbus_connect_and_send_notification(notification, c, fault, r) ==
    IF fault = "connect"
    THEN [backend |-> "Dbus", call |-> NoCall, res |-> Err("BusError"), handle |-> NoHandle]
    ELSE LET inner_id == unwrap_or(notification.id, 0)
             sent     == dbus_send_notificaion_via_connection(notification, inner_id, c, fault, r)
         IN  [backend |-> "Dbus", call |-> sent.call, res |-> sent.res,
              handle |-> IF sent.res.kind = "Ok"
                         THEN DbusNotificationHandle_new(sent.res.val, c, notification)
                         ELSE NoHandle]

\* DbusNotificationHandle::update: the facade's update returns (), so a failure either
\* unwinds or is dropped (how); the identifier is overwritten on success only.
dbus_update(self, fault, r, how) ==
    LET sent == dbus_send_notificaion_via_connection(self.notification, self.id, self.conn, fault, r)
    IN  [backend |-> "Dbus", call |-> sent.call,
         res    |-> IF sent.res.kind = "Ok" \/ how = "swallow" THEN Unit ELSE Panic("unwrap"),
         handle |-> IF sent.res.kind = "Ok" THEN [self EXCEPT !.id = sent.res.val] ELSE self]

\* DbusNotificationHandle::close
dbus_close(self) ==
    [backend |-> "Dbus", call |-> Call("CloseNotification", self.id, self.conn),
     res |-> Unit, handle |-> Consumed]

\* dbus_rs::handle_action: the start of the blocking wait for identifier i
dbus_handle_action(i, mode) ==
    [NoWait EXCEPT !.st = "waiting", !.mode = mode, !.id = i]

\* dbus_rs::handle_action: the action name a signal yields for identifier i, if any
dbus_handle_action_match(i, sig) ==
    IF sig.id # i THEN <<>>
    ELSE IF sig.kind = "ActionInvoked" THEN <<sig.key>>
    ELSE <<"__closed">>

\* DbusNotificationHandle::wait_for_action
dbus_wait_for_action(self, mode) ==
    [backend |-> "Dbus", call |-> NoCall, res |-> Unit, handle |-> Consumed,
     wait |-> dbus_handle_action(self.id, mode)]

dbus_get_capabilities(c, fault) ==
    [backend |-> "Dbus",
     call |-> IF fault = "connect" THEN NoCall ELSE Call("GetCapabilities", 0, c),
     res  |-> IF fault \in {"connect", "errreply"} THEN Err("BusError")
              ELSE IF fault = "undecodable" THEN Err("DecodeError")
              ELSE Ok(0)]

dbus_get_server_information(c, fault) ==
    [backend |-> "Dbus",
     call |-> IF fault = "connect" THEN NoCall ELSE Call("GetServerInformation", 0, c),
     res  |-> IF fault \in {"connect", "errreply"} THEN Err("BusError")
              ELSE IF fault = "undecodable" THEN Err("DecodeError")
              ELSE Ok(0)]

\* ------------------------------------------------------------------ facade
\* xdg::show_notification
show_notification(notification, e, c, fault, r) ==
    IF env_var_is_ok(e)
    THEN zbus_connect_and_send_notification(notification, c, fault, r)
    ELSE dbus_connect_and_send_notification(notification, c, fault, r)

\* xdg::get_capabilities
get_capabilities(c, fault) == dbus_get_capabilities(c, fault)

\* xdg::get_server_information
get_server_information(e, c, fault) ==
    IF env_var_is_ok(e)
    THEN zbus_get_server_information(c, fault)
    ELSE dbus_get_server_information(c, fault)

\* Slip: the arms of the match are swapped.
update_swapped(self, fault, r, how) ==
    IF self.variant = "Zbus" THEN dbus_update(self, fault, r, how)
    ELSE zbus_update(self, fault, r)

\* NotificationHandle::update
update(self, fault, r, how) ==
    IF self.variant = "Dbus" THEN dbus_update(self, fault, r, how)
    ELSE zbus_update(self, fault, r)

\* Slip: close borrows the handle and leaves it with the caller.
close_by_ref(self) ==
    IF self.variant = "Dbus" THEN [dbus_close(self) EXCEPT !.handle = self]
    ELSE [zbus_close(self) EXCEPT !.handle = self]

\* NotificationHandle::close
close(self) ==
    IF self.variant = "Dbus" THEN dbus_close(self) ELSE zbus_close(self)

\* NotificationHandle::wait_for_action
wait_for_action(self) ==
    IF self.variant = "Dbus" THEN dbus_wait_for_action(self, "action")
    ELSE zbus_wait_for_action(self, "action")

\* NotificationHandle::on_close: the wait it starts
on_close(self) ==
    IF self.variant = "Dbus" THEN dbus_wait_for_action(self, "on_close")
    ELSE zbus_wait_for_action(self, "on_close")

\* Slip: the closure runs whatever the action name.
on_close_closure_always(action) == 1

\* NotificationHandle::on_close: how often the wrapped closure runs for an action name
on_close_closure(action) == IF action = "__closed" THEN 1 ELSE 0

\* NotificationHandle::id
id(self) == self.id

\* Slip: the identifier is not passed on.
handle_action_any(i) == dbus_handle_action(0, "action")

\* xdg::handle_action
handle_action(i) == dbus_handle_action(i, "action")

\* Slip: a write to the snapshot's id field is carried over to the handle's id.
deref_mut_syncs_id(self, f, v) ==
    [self EXCEPT !.notification = [@ EXCEPT ![f] = v],
                 !.id = IF f = "id" THEN unwrap_or(v, @) ELSE @]

\* DerefMut for NotificationHandle: a write of v to field f of the snapshot through
\* the handle
deref_mut(self, f, v) == [self EXCEPT !.notification = [@ EXCEPT ![f] = v]]

\* ------------------------------------------------------------------ state
Init ==
    /\ env \in {"unset", "unicode"}
    /\ handles = [h \in H |-> NoHandle]
    /\ nextConn = 1
    /\ waits = [w \in W |-> NoWait]
    /\ seen = [w \in W |-> <<>>]
    /\ shownOn = [h \in H |-> "-"]
    /\ assigned = [h \in H |-> 0]
    /\ ended = [h \in H |-> 0]
    /\ caller = Blank
    /\ snap = [h \in H |-> Blank.summary]
    /\ conns = [h \in H |-> 0]
    /\ inflight = [h \in H |-> NoUpdate]
    /\ last = NoOp

Live(h) == handles[h].st = "live"

\* The record of an operation on handle h (0: no handle) that ran adapter output out.
Done(name, h, fault, pre, out) ==
    [NoOp EXCEPT !.op = name, !.h = h, !.backend = out.backend, !.fault = fault,
                 !.call = out.call, !.pre = pre, !.res = out.res]

\* A wait that blocks remembers the identifier its caller asked for.
Asked(wt, i) == IF wt.st = "waiting" THEN [wt EXCEPT !.want = i] ELSE wt

\* std::env::set_var / remove_var by the embedding program
SetEnv(v) ==
    /\ v # env
    /\ env' = v
    /\ last' = [NoOp EXCEPT !.op = "set_var"]
    /\ UNCHANGED <<aux, snap, conns, handles, nextConn, waits, seen, shownOn, assigned, ended>>

\* The connection a handle keeps open: a connection lives as long as the value that
\* owns it, and the only owner that outlives a call is the handle it was moved into.
Held(handle) == IF handle.st = "live" THEN handle.conn ELSE 0

\* Notification::show -> xdg::show_notification; the handle goes to the first free slot
Show(n, fault, r) ==
    \E h \in H :
        /\ handles[h].st = "none"
        /\ \A k \in 1..(h - 1) : handles[k].st # "none"
        /\ LET out == show_notification(n, env, nextConn, fault, r) IN
            /\ last' = [Done("show", h, fault, 0, out) EXCEPT !.nid = n.id, !.r = r]
            /\ handles' = [handles EXCEPT ![h] = out.handle]
            /\ conns' = [conns EXCEPT ![h] = Held(out.handle)]
            /\ IF out.res.kind = "Ok"
               THEN /\ shownOn' = [shownOn EXCEPT ![h] = out.backend]
                    /\ assigned' = [assigned EXCEPT ![h] = r]
                    /\ snap' = [snap EXCEPT ![h] = n.summary]
                    /\ nextConn' = nextConn + 1
               ELSE UNCHANGED <<shownOn, assigned, snap, nextConn>>
        /\ UNCHANGED <<aux, env, waits, seen, ended>>

\* How many updates in a row, this one included, met a server that preserves ids
Streak(h, fault, r, sent) ==
    IF fault # "none" \/ r # sent THEN 0
    ELSE IF last.op = "update" /\ last.h = h /\ last.streak >= 1 THEN 2
    ELSE 1

\* handle.update(): the Notify call and the use of its reply
UpdateStep(h, fault, r, how) ==
    /\ Live(h)
    /\ LET out == update(handles[h], fault, r, how) IN
        /\ last' = [Done("update", h, fault, handles[h].id, out)
                      EXCEPT !.held = assigned[h], !.r = r,
                             !.nid = handles[h].notification.id,
                             !.streak = Streak(h, fault, r, out.call.id),
                             !.id0 = IF Streak(h, fault, r, out.call.id) = 2
                                     THEN last.id0 ELSE handles[h].id]
        /\ handles' = [handles EXCEPT ![h] = out.handle]
    /\ assigned' = IF fault = "none" THEN [assigned EXCEPT ![h] = r] ELSE assigned
    /\ UNCHANGED <<caller, snap, conns, env, nextConn, waits, seen, shownOn, ended>>

\* handle.update() as one step: the call is synchronous
Update(h, fault, r, how) ==
    /\ UpdateStep(h, fault, r, how)
    /\ UNCHANGED inflight

\* handle.close()
Close(h) ==
    /\ Live(h)
    /\ LET out == close(handles[h]) IN
        /\ last' = [Done("close", h, "none", handles[h].id, out)
                      EXCEPT !.held = assigned[h]]
        /\ handles' = [handles EXCEPT ![h] = out.handle]
    /\ ended' = [ended EXCEPT ![h] = @ + 1]
    /\ conns' = [conns EXCEPT ![h] = 0]
    /\ UNCHANGED <<aux, snap, env, nextConn, waits, seen, shownOn, assigned>>

\* handle.wait_for_action(f): the call starts to block (dbus) or unwinds (zbus)
WaitForAction(h) ==
    /\ Live(h)
    /\ LET out == wait_for_action(handles[h]) IN
        /\ last' = [Done("wait_for_action", h, "none", handles[h].id, out)
                      EXCEPT !.mode = "action"]
        /\ handles' = [handles EXCEPT ![h] = out.handle]
        /\ waits' = [waits EXCEPT ![h] = Asked(out.wait, handles[h].id)]
        /\ conns' = IF out.wait.st = "waiting" THEN conns ELSE [conns EXCEPT ![h] = 0]
    /\ ended' = [ended EXCEPT ![h] = @ + 1]
    /\ UNCHANGED <<aux, snap, env, nextConn, seen, shownOn, assigned>>

\* handle.on_close(f)
OnClose(h) ==
    /\ Live(h)
    /\ LET out == on_close(handles[h]) IN
        /\ last' = [Done("on_close", h, "none", handles[h].id, out)
                      EXCEPT !.mode = "on_close"]
        /\ handles' = [handles EXCEPT ![h] = out.handle]
        /\ waits' = [waits EXCEPT ![h] = Asked(out.wait, handles[h].id)]
        /\ conns' = IF out.wait.st = "waiting" THEN conns ELSE [conns EXCEPT ![h] = 0]
    /\ ended' = [ended EXCEPT ![h] = @ + 1]
    /\ UNCHANGED <<aux, snap, env, nextConn, seen, shownOn, assigned>>

\* xdg::handle_action(i, f) called directly; one such call blocks at a time
HandleAction(i) ==
    /\ waits[0].st = "idle"
    /\ waits' = [waits EXCEPT ![0] = Asked(handle_action(i), i)]
    /\ last' = [NoOp EXCEPT !.op = "handle_action", !.backend = "Dbus", !.pre = i,
                            !.mode = "action"]
    /\ UNCHANGED <<aux, snap, conns, env, handles, nextConn, seen, shownOn, assigned, ended>>

\* handle.id()
Id(h) ==
    /\ Live(h)
    /\ last' = [NoOp EXCEPT !.op = "id", !.h = h, !.backend = handles[h].variant,
                            !.pre = handles[h].id, !.res = Ok(id(handles[h]))]
    /\ UNCHANGED <<aux, snap, conns, env, handles, nextConn, waits, seen, shownOn, assigned, ended>>

\* handle.f = v through DerefMut (f: id is the snapshot's own optional id field)
DerefMut(h, f, v) ==
    /\ Live(h)
    /\ handles[h].notification[f] # v
    /\ handles' = [handles EXCEPT ![h] = deref_mut(@, f, v)]
    /\ last' = [NoOp EXCEPT !.op = "deref_mut", !.h = h, !.backend = handles[h].variant,
                            !.pre = handles[h].id]
    /\ snap' = IF f = "summary" THEN [snap EXCEPT ![h] = v] ELSE snap
    /\ UNCHANGED <<aux, conns, env, nextConn, waits, seen, shownOn, assigned, ended>>

\* xdg::get_capabilities()
GetCapabilities(fault) ==
    /\ last' = Done("get_capabilities", 0, fault, 0, get_capabilities(nextConn, fault))
    /\ UNCHANGED <<aux, snap, conns, env, handles, nextConn, waits, seen, shownOn, assigned, ended>>

\* xdg::get_server_information()
GetServerInformation(fault) ==
    /\ last' = Done("get_server_information", 0, fault, 0,
                    get_server_information(env, nextConn, fault))
    /\ UNCHANGED <<aux, snap, conns, env, handles, nextConn, waits, seen, shownOn, assigned, ended>>

\* The action name of a signal as the library exposes it
ActionName(sig) == IF sig.kind = "NotificationClosed" THEN "__closed" ELSE sig.key

\* The blocked wait w reads signal sig from its connection: the callback runs on the
\* first signal that names the wait's identifier, and the wait returns.
Receive(w, sig) ==
    /\ waits[w].st = "waiting"
    /\ LET m     == dbus_handle_action_match(waits[w].id, sig)
           first == IF seen[w] = <<>> /\ sig.id = waits[w].want
                    THEN <<ActionName(sig)>> ELSE seen[w]
       IN  IF m # <<>>
           THEN /\ waits' = [waits EXCEPT ![w] = NoWait]
                /\ seen' = [seen EXCEPT ![w] = <<>>]
                /\ conns' = [h \in H |-> IF h = w THEN 0 ELSE conns[h]]
                /\ last' = [NoOp EXCEPT
                              !.op = "returned", !.h = w, !.backend = "Dbus",
                              !.pre = waits[w].want, !.sig = sig,
                              !.cb = Append(waits[w].cb, m[1]),
                              !.closure = IF waits[w].mode = "on_close"
                                          THEN on_close_closure(m[1]) ELSE 0,
                              !.mode = waits[w].mode, !.first = first]
           ELSE /\ seen' = [seen EXCEPT ![w] = first]
                /\ last' = [NoOp EXCEPT
                              !.op = "ignored", !.h = w, !.backend = "Dbus",
                              !.pre = waits[w].want, !.cb = waits[w].cb,
                              !.mode = waits[w].mode]
                /\ UNCHANGED <<waits, conns>>
    /\ UNCHANGED <<aux, snap, env, handles, nextConn, shownOn, assigned, ended>>

Next ==
    \/ \E v \in EnvVals : SetEnv(v)
    \/ \E o \in OptIds, b \in Replies :
          /\ nextConn <= Shown
          /\ Show([Blank EXCEPT !.id = o], b.fault, b.r)
    \/ \E h \in H, b \in Replies, how \in {"panic", "swallow"} :
          /\ b.fault # "connect"
          /\ how = "swallow" => handles[h].variant = "Dbus" /\ b.fault # "none"
          /\ Update(h, b.fault, b.r, how)
    \/ \E h \in H : Close(h)
    \/ \E h \in H : WaitForAction(h)
    \/ \E h \in H : OnClose(h)
    \/ \E i \in Ids : HandleAction(i)
    \/ \E h \in H : Id(h)
    \/ \E h \in H, v \in OptIds : DerefMut(h, "id", v)
    \/ \E fault \in Faults : GetCapabilities(fault)
    \/ \E fault \in Faults : GetServerInformation(fault)
    \/ \E w \in W, i \in Ids, key \in Keys :
          Receive(w, [kind |-> "ActionInvoked", id |-> i, key |-> key])
    \/ \E w \in W, i \in Ids :
          Receive(w, [kind |-> "NotificationClosed", id |-> i, key |-> "none"])

Spec == Init /\ [][Next]_vars

\* ------------------------------------------- the caller's notification and the snapshot
Summaries == {"hi", "bye"}

\* The caller writes v to field f of the notification it owns
CallerSet(f, v) ==
    /\ caller[f] # v
    /\ caller' = [caller EXCEPT ![f] = v]
    /\ last' = [NoOp EXCEPT !.op = "caller_set"]
    /\ UNCHANGED <<inflight, snap, conns, env, handles, nextConn, waits, seen, shownOn,
                   assigned, ended>>

NextSnapshot ==
    \/ \E v \in Summaries : CallerSet("summary", v)
    \/ \E b \in Replies :
          /\ nextConn <= Shown
          /\ Show(caller, b.fault, b.r)
    \/ \E h \in H, v \in Summaries : DerefMut(h, "summary", v)
    \/ \E h \in H, b \in Replies :
          /\ b.fault # "connect"
          /\ Update(h, b.fault, b.r, "panic")

SpecSnapshot == Init /\ [][NextSnapshot]_vars

\* ------------------------------------------------- several handles, their connections
NextConn ==
    \/ \E v \in EnvVals : SetEnv(v)
    \/ \E b \in Replies :
          /\ nextConn <= MaxHandles
          /\ Show(Blank, b.fault, b.r)
    \/ \E h \in H, b \in Replies :
          /\ b.fault # "connect"
          /\ Update(h, b.fault, b.r, "panic")
    \/ \E h \in H : Close(h)
    \/ \E fault \in Faults : GetServerInformation(fault)

SpecConn == Init /\ [][NextConn]_vars

\* ------------------------------------------------- update, call by call on the bus
\* Slip: the call is sent and update goes on without waiting for its reply.
call_method_nowait(u) ==
    [u EXCEPT !.out = @ + 1, !.issued = @ + 1]

\* connection.call_method: the message is sent and the caller blocks for the reply
call_method_send(u) ==
    [u EXCEPT !.pc = "blocked", !.out = @ + 1, !.issued = @ + 1]

\* connection.call_method: the reply has arrived and the caller goes on
call_method_reply(u) ==
    [u EXCEPT !.pc = "idle", !.out = @ - 1, !.answered = @ + 1]

\* handle.update() is called: it takes &mut self and sends its Notify
UpdateCall(h) ==
    /\ Live(h)
    /\ inflight[h].pc = "idle"
    /\ inflight[h].issued < MaxUpdates
    /\ inflight' = [inflight EXCEPT ![h] = call_method_send(@)]
    /\ last' = [NoOp EXCEPT !.op = "update_call", !.h = h,
                            !.backend = handles[h].variant, !.pre = handles[h].id,
                            !.call = Call("Notify", handles[h].id, handles[h].conn)]
    /\ UNCHANGED <<caller, snap, conns, env, handles, nextConn, waits, seen, shownOn,
                   assigned, ended>>

\* The reply to the Notify of the update in progress arrives and update ends
UpdateReply(h, fault, r, how) ==
    /\ inflight[h].out > 0
    /\ UpdateStep(h, fault, r, how)
    /\ inflight' = [inflight EXCEPT ![h] = call_method_reply(@)]

NextOrder ==
    \/ \E b \in Replies :
          /\ nextConn <= MaxHandles
          /\ Show(Blank, b.fault, b.r)
    \/ \E h \in H : UpdateCall(h)
    \/ \E h \in H, b \in Replies :
          /\ b.fault # "connect"
          /\ UpdateReply(h, b.fault, b.r, "panic")

SpecOrder == Init /\ [][NextOrder]_vars

\* ------------------------------------------------- the Notify tuple of both adapters
\* The caller has built any notification; nothing is shown yet.
InitWire ==
    /\ env \in {"unset", "unicode"}
    /\ handles = [h \in H |-> NoHandle]
    /\ nextConn = 1
    /\ waits = [w \in W |-> NoWait]
    /\ seen = [w \in W |-> <<>>]
    /\ shownOn = [h \in H |-> "-"]
    /\ assigned = [h \in H |-> 0]
    /\ ended = [h \in H |-> 0]
    /\ caller \in Notifications
    /\ snap = [h \in H |-> Blank.summary]
    /\ conns = [h \in H |-> 0]
    /\ inflight = [h \in H |-> NoUpdate]
    /\ last = NoOp

\* show_notification(caller) with the toggle set and with the toggle unset, side by side
ShowBoth(r) ==
    /\ last.op = "init"
    /\ LET modern == show_notification(caller, "unicode", nextConn, "none", r)
           legacy == show_notification(caller, "unset", nextConn, "none", r)
       IN  last' = [Done("show_both", 0, "none", 0, modern)
                      EXCEPT !.nid = caller.id, !.r = r, !.alt = legacy.call]
    /\ UNCHANGED <<aux, snap, conns, env, handles, nextConn, waits, seen, shownOn, assigned, ended>>

NextWire == \E r \in Ids : ShowBoth(r)

SpecWire == InitWire /\ [][NextWire]_vars

\* ------------------------------------------------------------------ claims
HandleOps == {"update", "close", "wait_for_action", "on_close", "id", "deref_mut"}
WaitOps   == {"wait_for_action", "on_close", "handle_action"}

\* C1: every Notify that update issues carries as replace id the identifier the handle
\* held when update was called, which is the identifier the server returned to the
\* previous successful Notify for that handle.
UpdateSendsHeldId ==
    last.op = "update" =>
        /\ last.call.method = "Notify"
        /\ last.call.id = last.pre
        /\ last.call.id = last.held

\* An update of a handle whose identifier is 1 and whose snapshot has no id of its own
C1_Witness ==
    /\ last.op = "update"
    /\ last.backend = "Zbus"
    /\ last.pre = 1
    /\ last.nid = <<>>

\* C2: a successful show sends replace id N.id when N.id is present and 0 when it is
\* absent, and returns a handle whose id() is the server's reply.
ShowSendsIdAndBindsReply ==
    (last.op = "show" /\ last.res.kind = "Ok") =>
        /\ last.call.method = "Notify"
        /\ last.nid = <<>> => last.call.id = 0
        /\ last.nid # <<>> => last.call.id = last.nid[1]
        /\ Live(last.h)
        /\ id(handles[last.h]) = last.r
        /\ last.res.val = last.r

\* A modern-backend show of a notification with id 1 to which the server replied 1
C2_Witness ==
    /\ last.op = "show"
    /\ last.res.kind = "Ok"
    /\ last.backend = "Zbus"
    /\ last.nid = <<1>>
    /\ last.r = 1

\* C3: after a failed update the handle's id() is what it was before the update.
FailedUpdateKeepsId ==
    (last.op = "update" /\ last.fault # "none") =>
        /\ Live(last.h)
        /\ id(handles[last.h]) = last.pre

\* A modern-backend update of a handle with identifier 1 that got an error reply
C3_Witness ==
    /\ last.op = "update"
    /\ last.backend = "Zbus"
    /\ last.fault = "errreply"
    /\ last.pre = 1

\* C4: every adapter operation reports a bus failure to its caller as an error value:
\* BusError when the connection cannot be opened or the call gets an error reply,
\* DecodeError when the reply cannot be decoded.
FailuresAreErrorValues ==
    (/\ last.op \in {"show", "update", "get_server_information", "get_capabilities"}
     /\ last.fault # "none") =>
        /\ last.res.kind = "Err"
        /\ last.res.err = IF last.fault = "undecodable" THEN "DecodeError" ELSE "BusError"

\* C5: close issues CloseNotification with the handle's identifier and consumes the
\* handle, on either backend.
CloseIssuesCloseNotification ==
    last.op = "close" =>
        /\ last.call.method = "CloseNotification"
        /\ last.call.id = last.pre
        /\ handles[last.h].st = "consumed"

\* C6: a wait for identifier i never invokes its callback in response to a signal
\* whose identifier differs from i.
NoForeignTrigger ==
    /\ \A w \in W : waits[w].st = "waiting" => waits[w].cb = <<>>
    /\ last.op = "ignored" => last.cb = <<>>
    /\ last.op = "returned" => last.sig.id = last.pre

\* A direct handle_action(1, f) that returned; signals naming 0 may have come before
C6_Witness ==
    /\ last.op = "returned"
    /\ last.h = 0
    /\ last.pre = 1
    /\ last.cb # <<>>

\* C7: a wait for identifier i ends only after a signal naming i has arrived, having
\* invoked the callback exactly once with the action name of the first such signal.
WaitEndsOnFirstMatch ==
    /\ last.op \in WaitOps => (last.res.kind = "Unit" /\ waits[last.h].st = "waiting")
    /\ last.op = "ignored" => (last.cb = <<>> /\ waits[last.h].st = "waiting")
    /\ last.op = "returned" =>
        /\ last.sig.id = last.pre
        /\ last.first # <<>>
        /\ last.cb = last.first

\* C8: on_close invokes its closure only when the action name the wait delivers is
\* "__closed"; for any other name the closure is not invoked and on_close returns.
OnCloseOnlyOnClosed ==
    last.op = "returned" =>
        /\ waits[last.h].st = "idle"
        /\ last.closure = 1 => (last.mode = "on_close" /\ last.cb = <<"__closed">>)
        /\ (last.mode = "on_close" /\ last.cb = <<"__closed">>) => last.closure = 1

\* An on_close whose wait delivered the action name "default"
C8_Witness ==
    /\ last.op = "returned"
    /\ last.mode = "on_close"
    /\ last.cb = <<"default">>
    /\ last.closure = 0

\* The handle's variant tag is the backend show chose, and every operation on the
\* handle runs on it.
VariantIsFixed ==
    /\ \A h \in H : Live(h) => handles[h].variant = shownOn[h]
    /\ (last.op = "show" /\ last.res.kind = "Ok") => shownOn[last.h] = last.backend
    /\ last.op \in HandleOps => last.backend = shownOn[last.h]

QueriesFollowShowSelection ==
    last.op \in {"get_capabilities", "get_server_information"} =>
        last.backend = show_notification(Blank, env, nextConn, "none", 0).backend

\* C11: against a server that returns the replace id it is given, two updates in a
\* row with no field change in between leave id() after the first and after the
\* second equal to id() before the first.
UpdateIsIdempotent ==
    (last.op = "update" /\ last.streak >= 1) =>
        /\ id(handles[last.h]) = last.id0
        /\ last.pre = last.id0

\* The second of two such updates of a modern-backend handle whose id() was 1
C11_Witness ==
    /\ last.op = "update"
    /\ last.streak = 2
    /\ last.backend = "Zbus"
    /\ last.id0 = 1

\* C12: get_server_information after a show leaves the id() of every handle as it
\* was, issues no Notify and no CloseNotification, and runs on a connection of its own.
QueryLeavesHandlesAlone ==
    last.op = "get_server_information" =>
        /\ last.call.method \in {"none", "GetServerInformation"}
        /\ \A h \in H : Live(h) =>
              /\ id(handles[h]) = assigned[h]
              /\ last.call.conn # handles[h].conn

\* A modern-backend query made while a handle with id() 1 is live
C12_Witness ==
    /\ last.op = "get_server_information"
    /\ last.backend = "Zbus"
    /\ last.call.method = "GetServerInformation"
    /\ \E h \in H : Live(h) /\ id(handles[h]) = 1

\* C13: for the same notification and the same replace id the modern adapter and the
\* legacy adapter send the same Notify arguments (appname, id, icon, summary, body,
\* actions, hints, timeout), all the actions and all the hints included.
SameNotifyTuple ==
    last.op = "show_both" =>
        /\ last.call.method = "Notify"
        /\ last.alt.method = "Notify"
        /\ Len(last.call.args) = 8
        /\ last.call.args = last.alt.args
        /\ last.call.args[6] = caller.actions
        /\ DOMAIN last.call.args[7] = {x.key : x \in caller.hints}

\* A notification with two actions, two hints and a timeout of 5000 ms sent both ways
C13_Witness ==
    /\ last.op = "show_both"
    /\ Len(last.call.args[6]) = 4
    /\ DOMAIN last.call.args[7] = {"urgency", "transient"}
    /\ last.call.args[8] = 5000
    /\ last.call.args[2] = 1

\* C14: what update sends is the handle's own snapshot: the notification as it was
\* when shown, with the writes made through the handle since; a write the caller makes
\* to its own notification after show is not in it.
UpdateSendsSnapshot ==
    /\ \A h \in H : Live(h) => handles[h].notification.summary = snap[h]
    /\ last.op = "update" =>
          /\ last.call.method = "Notify"
          /\ last.call.args[4] = snap[last.h]

\* A modern-backend update that sent a summary other than the one the caller's
\* notification has by now
C14_Witness ==
    /\ last.op = "update"
    /\ last.backend = "Zbus"
    /\ last.call.args[4] = "bye"
    /\ caller.summary = "hi"

\* C15: a successful show takes one new connection, which its handle alone refers to;
\* no two handles refer to one connection; update sends on its handle's connection and
\* takes no new one; the connection is open as long as the handle is there.
OwnConnection ==
    /\ \A h \in H, k \in H :
          (Live(h) /\ Live(k) /\ h # k) => handles[h].conn # handles[k].conn
    /\ \A h \in H : Live(h) =>
          /\ conns[h] = handles[h].conn
          /\ conns[h] \in 1..(nextConn - 1)
    /\ (last.op = "show" /\ last.res.kind = "Ok") =>
          /\ last.call.conn = nextConn - 1
          /\ handles[last.h].conn = nextConn - 1
    /\ last.op = "update" =>
          /\ last.call.method = "Notify"
          /\ last.call.conn = conns[last.h]

\* A modern-backend update of the second of two handles that are both there
C15_Witness ==
    /\ last.op = "update"
    /\ last.h = 2
    /\ last.backend = "Zbus"
    /\ Live(1)
    /\ Live(2)

\* C16: when the connection cannot be opened or the server answers Notify with an
\* error, show returns an error, there is no handle and no connection stays open for
\* the notification; a handle that is there came from a send that succeeded.
HandleOnlyFromSuccess ==
    /\ (last.op = "show" /\ last.fault \in {"connect", "errreply"}) =>
          /\ last.res.kind = "Err"
          /\ handles[last.h].st = "none"
          /\ conns[last.h] = 0
          /\ nextConn = 1 + Cardinality({h \in H : handles[h].st # "none"})
    /\ \A h \in H : Live(h) => shownOn[h] # "-"

\* A modern-backend show whose Notify the server answered with an error
C16_Witness ==
    /\ last.op = "show"
    /\ last.backend = "Zbus"
    /\ last.fault = "errreply"
    /\ last.call.method = "Notify"

\* C17: on one handle the Notify of an update is issued only when every earlier
\* update's Notify has had its reply, and at most one Notify of the handle is
\* unanswered at any time.
UpdatesInOrder ==
    /\ \A h \in H :
          /\ inflight[h].out <= 1
          /\ inflight[h].out = inflight[h].issued - inflight[h].answered
          /\ inflight[h].pc = "idle" => inflight[h].out = 0
    /\ last.op = "update_call" =>
          inflight[last.h].answered = inflight[last.h].issued - 1
    /\ last.op = "update" =>
          inflight[last.h].answered = inflight[last.h].issued

\* The second update of a modern-backend handle has sent its Notify
C17_Witness ==
    /\ last.op = "update_call"
    /\ last.backend = "Zbus"
    /\ inflight[last.h].issued = 2
    /\ inflight[last.h].answered = 1

\* C18: a handle has at most one of close, wait_for_action and on_close, and after it
\* the handle is gone: no update, id, write, close or wait is made through it again;
\* update, id and writes through the handle leave it in place.
TerminalOps ==
    /\ \A h \in H :
          /\ ended[h] <= 1
          /\ ended[h] = 1 => handles[h].st = "consumed"
          /\ waits[h].st = "waiting" => ended[h] = 1
    /\ last.op \in {"update", "id", "deref_mut"} =>
          /\ Live(last.h)
          /\ ended[last.h] = 0
    /\ last.op \in {"close", "wait_for_action", "on_close"} =>
          /\ ended[last.h] = 1
          /\ handles[last.h].st = "consumed"

\* A legacy-backend close, which sent CloseNotification and used up the handle
C18_Witness ==
    /\ last.op = "close"
    /\ last.backend = "Dbus"
    /\ last.call.method = "CloseNotification"
    /\ ended[last.h] = 1

\* C19: id() is always the identifier the server returned to the handle's last
\* successful send; a write through the handle, also one to the snapshot's own id
\* field, leaves id() as it was, and the next update still sends the handle's id.
IdOnlyFromReplies ==
    /\ \A h \in H : Live(h) => id(handles[h]) = assigned[h]
    /\ last.op = "deref_mut" =>
          /\ id(handles[last.h]) = last.pre
          /\ handles[last.h].conn = conns[last.h]
    /\ (last.op = "update" /\ last.nid # <<>>) =>
          /\ last.call.args[2] = last.held
          /\ last.fault = "none" => id(handles[last.h]) = last.r

\* The snapshot's id field of a modern-backend handle has just been set to 1 through
\* the handle, whose id() is 0
C19_Witness ==
    /\ last.op = "deref_mut"
    /\ last.backend = "Zbus"
    /\ handles[last.h].notification.id = <<1>>
    /\ id(handles[last.h]) = 0

TypeOK ==
    /\ env \in EnvVals
    /\ nextConn \in 1..(MaxHandles + 1)
    /\ \A h \in H : ended[h] \in 0..1
    /\ \A h \in H : conns[h] \in 0..MaxHandles
    /\ \A h \in H : inflight[h].out \in 0..1
    /\ \A h \in H : handles[h].st \in {"none", "live", "consumed"}

====
